---- MODULE Spec2Model ----
(***************************************************************************)
(* AWS Documentation MCP server: the pagination formatter, the read path   *)
(* and the JSON-RPC dispatchers.                                           *)
(*                                                                         *)
(* The repository holds two independent programs:                          *)
(*   - the session-aware worker: utils.ts, tools.ts (unnamed/part_003),    *)
(*     mcp-server.ts (unnamed/part_000, class MCPServer) and the HTTP      *)
(*     worker (unnamed/part_002: /mcp/tools/call, /mcp/tools/stream);      *)
(*   - the standalone worker src/index.ts (handleMCPRequest, POST /mcp).   *)
(*                                                                         *)
(* Text is a sequence of characters; a character is a small integer.       *)
(***************************************************************************)
EXTENDS Integers, Sequences, FiniteSets, TLC

\* ------------------------------------------------------------------ bounds
\* Longest extracted text of the pagination specification.
MaxText == 3
\* Number of distinct characters of a text.
NumChars == 2
\* Largest max_length tried by the pagination specification.
MaxLen == 3
\* Longest page the upstream serves, in visible characters.
MaxPage == 2
\* Callers served at once in the concurrent specification.
MaxCalls == 2
\* UUIDs the worker may draw, clock ticks, distinct session headers.
MaxUuids == 2
MaxClock == 1
NumHeaders == 1
\* Longest raw page handed to the extractors on their own, in items.
MaxHtml == 2
\* GET /mcp/stream connections, and heartbeats emitted on each.
MaxStreams == 2
MaxBeats == 2

\* ------------------------------------------------------------ JS helpers
Min(a, b) == IF a < b THEN a ELSE b
Max(a, b) == IF a > b THEN a ELSE b

\* String.prototype.substring(a, b): both indexes are clamped to [0, length]
\* and swapped when a > b.
Substring(s, a, b) ==
  LET ca == Max(0, Min(a, Len(s)))
      cb == Max(0, Min(b, Len(s)))
  IN  SubSeq(s, Min(ca, cb) + 1, Max(ca, cb))

\* String.prototype.slice(a, b): a negative index counts from the end, both
\* are clamped to [0, length], and the result is empty when a >= b.
Slice(s, a, b) ==
  LET ra == IF a < 0 THEN Max(Len(s) + a, 0) ELSE Min(a, Len(s))
      rb == IF b < 0 THEN Max(Len(s) + b, 0) ELSE Min(b, Len(s))
  IN  IF ra >= rb THEN <<>> ELSE SubSeq(s, ra + 1, rb)

\* ---------------------------------------------------------- tokens, URLs
\* A session token, by where it came from.
NoToken == [src |-> "none", n |-> 0]
HeaderToken(k) == [src |-> "header", n |-> k]
UuidToken(k) == [src |-> "uuid", n |-> k]
ClockToken(t) == [src |-> "clock", n |-> t]

\* A URL is kept as the parts the code looks at: whether the argument is
\* defined at all, its scheme, its host (up to the first "/"), its suffix,
\* and the session token of its query string (NoToken when it has none).
Url(def, scheme, host, ext) ==
  [def |-> def, scheme |-> scheme, host |-> host, ext |-> ext, query |-> NoToken]
GoodUrl == Url(TRUE, "https", "docs.aws.amazon.com", ".html")
EvilUrl == Url(TRUE, "https", "evil.example", ".html")
NoHtmlUrl == Url(TRUE, "https", "docs.aws.amazon.com", ".pdf")
UndefUrl == Url(FALSE, "", "", "")
\* `${url}?session=${sessionId}`
WithSession(url, sessionId) == [url EXCEPT !.query = sessionId]

\* ------------------------------------------------- the formatter's output
\* The text a read returns, kept as its parts:
\*   prefix  the template in front of the content, "" when there is none
\*   url     the source label the prefix names (UndefUrl when there is none)
\*   nomore  the text is the fixed "no more content" message
\*   body    the slice of the content
\*   note    a continuation note is appended; next is the start_index it names
DocText(prefix, url, nomore, body, note, next) ==
  [prefix |-> prefix, url |-> url, nomore |-> nomore, body |-> body,
   note |-> note, next |-> next]

\* formatDocumentationResult naming a start_index one past the slice's end.
formatDocumentationResult_skips(url, content, startIndex, maxLength) ==
  LET originalLength == Len(content)
      endIndex == Min(startIndex + maxLength, originalLength)
      truncatedContent == Substring(content, startIndex, endIndex)
      actualContentLength == Len(truncatedContent)
      remainingContent == originalLength - (startIndex + actualContentLength)
      nextStart == startIndex + actualContentLength + 1
  IN  IF startIndex >= originalLength \/ truncatedContent = <<>>
        THEN DocText("AWS Documentation from", url, TRUE, <<>>, FALSE, 0)
      ELSE IF remainingContent > 0
        THEN DocText("AWS Documentation from", url, FALSE, truncatedContent, TRUE, nextStart)
      ELSE DocText("AWS Documentation from", url, FALSE, truncatedContent, FALSE, 0)

\* utils.ts formatDocumentationResult
formatDocumentationResult(url, content, startIndex, maxLength) ==
  LET originalLength == Len(content)
      endIndex == Min(startIndex + maxLength, originalLength)
      truncatedContent == Substring(content, startIndex, endIndex)
      actualContentLength == Len(truncatedContent)
      remainingContent == originalLength - (startIndex + actualContentLength)
      nextStart == startIndex + actualContentLength
  IN  IF startIndex >= originalLength
        THEN DocText("AWS Documentation from", url, TRUE, <<>>, FALSE, 0)
      ELSE IF truncatedContent = <<>>
        THEN DocText("AWS Documentation from", url, TRUE, <<>>, FALSE, 0)
      ELSE IF remainingContent > 0
        THEN DocText("AWS Documentation from", url, FALSE, truncatedContent, TRUE, nextStart)
      ELSE DocText("AWS Documentation from", url, FALSE, truncatedContent, FALSE, 0)

\* indexFormat appending the note whenever the slice is max_length long.
indexFormat_fullSlice(url, processedContent, start_index, max_length) ==
  LET originalLength == Len(processedContent)
      slicedContent == Slice(processedContent, start_index, start_index + max_length)
      actualContentLength == Len(slicedContent)
      nextStart == start_index + actualContentLength
  IN  IF start_index >= originalLength \/ slicedContent = <<>>
        THEN DocText("", UndefUrl, TRUE, <<>>, FALSE, 0)
      ELSE IF actualContentLength = max_length
        THEN DocText("Contents of", url, FALSE, slicedContent, TRUE, nextStart)
      ELSE DocText("Contents of", url, FALSE, slicedContent, FALSE, 0)

\* index.ts readDocumentation, lines 228-266: the slicing of the standalone
\* worker, which has no formatter of its own.
indexFormat(url, processedContent, start_index, max_length) ==
  LET originalLength == Len(processedContent)
      slicedContent == Slice(processedContent, start_index, start_index + max_length)
      actualContentLength == Len(slicedContent)
      remainingContent == originalLength - (start_index + actualContentLength)
      nextStart == start_index + actualContentLength
  IN  IF start_index >= originalLength
        THEN DocText("", UndefUrl, TRUE, <<>>, FALSE, 0)
      ELSE IF slicedContent = <<>>
        THEN DocText("", UndefUrl, TRUE, <<>>, FALSE, 0)
      ELSE IF actualContentLength = max_length /\ remainingContent > 0
        THEN DocText("Contents of", url, FALSE, slicedContent, TRUE, nextStart)
      ELSE DocText("Contents of", url, FALSE, slicedContent, FALSE, 0)

\* The formatter of one implementation of the read path.
Format(impl, url, content, startIndex, maxLength) ==
  IF impl = "utils"
    THEN formatDocumentationResult(url, content, startIndex, maxLength)
    ELSE indexFormat(url, content, startIndex, maxLength)

\* ------------------------------------------------------------------ state
VARIABLES
  pg,        \* one caller paging through one extracted text
  calls,     \* the calls in flight and their answers, by slot
  sessions,  \* part_002 line 18: the process-wide session map
  now,       \* Date.now()
  uuids,     \* how many times crypto.randomUUID() was drawn
  clients,   \* the environment: how many callers, and what they send
  fn,        \* one application of the extractor or of the recommendation parser
  streams    \* the GET /mcp/stream connections and their heartbeat timers

vars == <<pg, calls, sessions, now, uuids, clients, fn, streams>>

Impls == {"utils", "index"}

\* All texts of at most n characters.
RECURSIVE TextsUpTo(_)
TextsUpTo(n) ==
  IF n = 0 THEN {<<>>}
  ELSE LET shorter == TextsUpTo(n - 1)
       IN  shorter \cup {Append(t, c) : t \in {u \in shorter : Len(u) = n - 1}, c \in 1..NumChars}

Texts == TextsUpTo(MaxText)

NoDoc == DocText("", UndefUrl, FALSE, <<>>, FALSE, 0)

\* ------------------------------------------- the pagination specification
\* A caller holds one extracted text and one max_length.  It either probes
\* the formatter at any start_index, or pages from start_index 0, passing the
\* start_index each continuation note names, until a response has no note.
PgInit ==
  pg \in [impl : Impls, text : Texts, max : 1..MaxLen,
          cursor : {0}, acc : {<<>>}, n : {0}, ended : {FALSE},
          called : {FALSE}, start : {0}, len : {0}, out : {NoDoc}]

\* One call of the chain, at the start_index the caller holds.
PageCall ==
  /\ ~pg.ended
  /\ pg.n < MaxText + 2
  /\ LET out == Format(pg.impl, GoodUrl, pg.text, pg.cursor, pg.max)
     IN  pg' = [pg EXCEPT !.acc = pg.acc \o out.body,
                          !.n = pg.n + 1,
                          !.cursor = IF out.note THEN out.next ELSE pg.cursor,
                          !.ended = ~out.note,
                          !.called = TRUE, !.start = pg.cursor, !.len = pg.max,
                          !.out = out]
  /\ UNCHANGED <<streams, fn, calls, sessions, now, uuids, clients>>

\* One call outside any chain, at any start_index and any max_length.
Probe(s, m) ==
  /\ pg.n = 0
  /\ pg' = [pg EXCEPT !.called = TRUE, !.start = s, !.len = m,
                      !.out = Format(pg.impl, GoodUrl, pg.text, s, m)]
  /\ UNCHANGED <<streams, fn, calls, sessions, now, uuids, clients>>

\* --------------------------------------------------------------- requests
\* A JSON-RPC id: absent, null or a number.
AbsentId == [t |-> "absent", v |-> 0]
NullId == [t |-> "null", v |-> 0]
NumId(n) == [t |-> "num", v |-> n]
\* !id
Falsy(id) == id.t \in {"absent", "null"} \/ (id.t = "num" /\ id.v = 0)

\* An arguments object: a function from the keys present to their values.
NoArgs == [k \in {} |-> 0]
\* args.k || d ignoring the value supplied.
OrDefault_ignoresValue(args, k, d) == d
\* args.k || d, for a number
OrDefault(args, k, d) == IF k \in DOMAIN args /\ args[k] # 0 THEN args[k] ELSE d
\* args.url, undefined when absent
ArgUrl(args) == IF "url" \in DOMAIN args THEN args.url ELSE UndefUrl

\* What a tool handler is called with: the tool and the numbers passed to it
\* (0 for a number the tool does not take).
Invocation(tool, max_length, start_index, limit) ==
  [ran |-> TRUE, tool |-> tool, max_length |-> max_length,
   start_index |-> start_index, limit |-> limit]
NoInvocation ==
  [ran |-> FALSE, tool |-> "", max_length |-> 0, start_index |-> 0, limit |-> 0]

\* The switch on the tool name (part_000 lines 252-270, part_002 lines 68-88
\* and 185-205, index.ts lines 187-193): the arguments each handler is given.
ToolArgs(toolName, args) ==
  CASE toolName = "read_documentation" ->
         Invocation(toolName, OrDefault(args, "max_length", 5000),
                    OrDefault(args, "start_index", 0), 0)
    [] toolName = "search_documentation" ->
         Invocation(toolName, 0, 0, OrDefault(args, "limit", 10))
    [] toolName = "recommend" -> Invocation(toolName, 0, 0, 0)
    [] OTHER -> NoInvocation

\* ------------------------------------------------------------ the upstream
\* A raw page is a sequence of items: a character (> 0), markup (0), or
\* markup on which the HTML parser or the converter throws (Poison).
Markup == 0
Poison == -9
\* What the extractors return in place of content (one item each).
EmptySentinel == <<-1>>
FailedSentinel == <<-2>>
ErrorSentinel == <<-3>>
IndexSentinel == <<-4>>

Visible(item) == item > 0
\* What is left of a page once its markup is dropped.
StripMarkup(html) == SelectSeq(html, Visible)

\* utils.ts extractContentFromHtml
extractContentFromHtml(html) ==
  IF html = <<>> THEN EmptySentinel
  ELSE IF \E i \in 1..Len(html) : html[i] = Poison THEN ErrorSentinel
  ELSE IF StripMarkup(html) = <<>> THEN FailedSentinel
  ELSE StripMarkup(html)

\* index.ts extractContentFromHtml (the regular-expression variant)
indexExtractContentFromHtml(html) ==
  IF StripMarkup(html) = <<>> THEN IndexSentinel ELSE StripMarkup(html)

\* utils.ts isHtmlContent: the first 100 characters hold "<html", or the
\* content type names text/html, or there is no content type.
SniffLength == 100
isHtmlContent(pageRaw, contentType) ==
  \/ \E i \in 1..Min(Len(pageRaw), SniffLength) : pageRaw[i] = Markup
  \/ contentType = "text/html"
  \/ contentType = ""

\* What the upstream sends back for one fetch.
Reply(net, status, ctype, raw, suggestions) ==
  [net |-> net, status |-> status, ctype |-> ctype, raw |-> raw,
   suggestions |-> suggestions]
NoReply == Reply("none", 0, "", <<>>, <<>>)
NetworkFailure == Reply("fail", 0, "", <<>>, <<>>)
\* AbortSignal.timeout(30000) of index.ts line 213 aborting the fetch
TimedOut == Reply("timeout", 0, "", <<>>, <<>>)
\* response.ok
Ok(reply) == reply.status >= 200 /\ reply.status <= 299

\* What is sent upstream: the URL fetched and the X-MCP-Session-Id header.
Fetch(target, url, session) == [target |-> target, url |-> url, session |-> session]
NoFetch == Fetch("none", UndefUrl, NoToken)

\* ----------------------------------------------------------- tool results
\* What a tool handler hands back: a string (a formatted page), a list
\* (search results: their rank_order values), or a content object of the
\* standalone worker (a formatted page or a fixed text).
Result(kind, doc, text, status, items) ==
  [kind |-> kind, doc |-> doc, text |-> text, status |-> status, items |-> items]
NoResult == Result("none", NoDoc, "", 0, <<>>)
DocString(doc) == Result("string", doc, "", 0, <<>>)
List(items) == Result("list", NoDoc, "", 0, items)
ContentDoc(doc) == Result("content", doc, "", 0, <<>>)
ContentText(text, status) == Result("content", NoDoc, text, status, <<>>)

\* How a handler ends: it returns a result or throws an Error.
Returned(result) == [threw |-> FALSE, msg |-> "", status |-> 0, result |-> result]
Threw(msg, status) == [threw |-> TRUE, msg |-> msg, status |-> status, result |-> NoResult]

\* A handler runs to its first await: it either ends there (out) or waits
\* for the upstream's reply to the fetch it issued.
Ended(out) == [waits |-> FALSE, fetch |-> NoFetch, out |-> out]
Awaits(fetch) == [waits |-> TRUE, fetch |-> fetch, out |-> Returned(NoResult)]

\* ------------------------------------------------ tools.ts (part_003)
TrustedOrigin(url) ==
  url.scheme \in {"http", "https"} /\ url.host = "docs.aws.amazon.com"

\* readDocumentation, lines 84-103: up to the fetch.  url.match on an
\* undefined url is a TypeError.
readDocumentationBegin(url, sessionId) ==
  IF ~url.def THEN Ended(Threw("TypeError: url is undefined", 0))
  ELSE IF ~TrustedOrigin(url)
    THEN Ended(Threw("URL must be from the docs.aws.amazon.com domain", 0))
  ELSE IF url.ext # ".html" THEN Ended(Threw("URL must end with .html", 0))
  ELSE Awaits(Fetch("page", WithSession(url, sessionId), sessionId))

\* readDocumentation labelling its output with the URL it fetched
\* (urlWithSession) instead of the URL it was given.
readDocumentation_labelsFetchedUrl(url, maxLength, startIndex, sessionId, reply) ==
  IF reply.net = "fail" THEN Threw("Failed to fetch: network error", 0)
  ELSE IF ~Ok(reply) THEN Threw("Failed to fetch: status code", reply.status)
  ELSE LET content == IF isHtmlContent(reply.raw, reply.ctype)
                        THEN extractContentFromHtml(reply.raw)
                        ELSE reply.raw
       IN  Returned(DocString(formatDocumentationResult(WithSession(url, sessionId), content,
                                                        startIndex, maxLength)))

\* readDocumentation, lines 105-122: from the upstream's reply on.
readDocumentation(url, maxLength, startIndex, sessionId, reply) ==
  IF reply.net = "fail" THEN Threw("Failed to fetch: network error", 0)
  ELSE IF ~Ok(reply) THEN Threw("Failed to fetch: status code", reply.status)
  ELSE LET content == IF isHtmlContent(reply.raw, reply.ctype)
                        THEN extractContentFromHtml(reply.raw)
                        ELSE reply.raw
       IN  Returned(DocString(formatDocumentationResult(url, content, startIndex, maxLength)))

\* searchDocumentation, lines 130-150: the fetch is issued whatever the phrase.
SearchApiUrl == Url(TRUE, "https", "proxy.search.docs.aws.amazon.com", "/search")
searchDocumentationBegin(sessionId) ==
  Awaits(Fetch("search", WithSession(SearchApiUrl, sessionId), sessionId))

\* searchDocumentation, lines 159-180: rank_order of the suggestions kept.
RECURSIVE SearchRanks(_, _, _)
SearchRanks(suggestions, i, n) ==
  IF i >= n THEN <<>>
  ELSE (IF suggestions[i + 1] THEN <<i + 1>> ELSE <<>>) \o SearchRanks(suggestions, i + 1, n)

\* searchDocumentation, lines 152-185: from the upstream's reply on.  A
\* suggestion is kept as whether it holds a textExcerptSuggestion.
searchDocumentation(limit, reply) ==
  IF reply.net = "fail" THEN Threw("Error searching AWS docs: network error", 0)
  ELSE IF ~Ok(reply) THEN Threw("Error searching AWS docs: status code", reply.status)
  ELSE Returned(List(SearchRanks(reply.suggestions, 0, Min(Len(reply.suggestions), limit))))

\* recommend, lines 188-196
recommendBegin(url, sessionId) == Awaits(Fetch("recs", WithSession(url, sessionId), NoToken))

\* recommend, lines 198-206
recommend(reply) ==
  IF reply.net = "fail" THEN Threw("Error getting recommendations: network error", 0)
  ELSE IF ~Ok(reply) THEN Threw("Error getting recommendations: status code", reply.status)
  ELSE Returned(List(<<>>))

\* ------------------------------------------------ index.ts, the tools
\* readDocumentation, lines 207-214: fetch(undefined) throws inside the try.
indexReadDocumentationBegin(url) ==
  IF ~url.def THEN Ended(Returned(ContentText("Failed to fetch", 0)))
  ELSE Awaits(Fetch("page", url, NoToken))

\* readDocumentation, lines 216-275
indexReadDocumentation(url, max_length, start_index, reply) ==
  IF reply.net \in {"fail", "timeout"} THEN Returned(ContentText("Failed to fetch", 0))
  ELSE IF ~Ok(reply) THEN Returned(ContentText("Failed to fetch - status code", reply.status))
  ELSE Returned(ContentDoc(indexFormat(url, indexExtractContentFromHtml(reply.raw),
                                       start_index, max_length)))

\* executeTool, lines 186-204, up to the first await
executeTool(name, args) ==
  CASE name = "read_documentation" -> indexReadDocumentationBegin(ArgUrl(args))
    [] name = "search_documentation" -> Ended(Returned(ContentText("Search guidance", 0)))
    [] name = "recommend" ->
         IF ArgUrl(args).def
           THEN Ended(Returned(ContentText("Related recommendations", 0)))
           ELSE Ended(Returned(ContentText("Failed to generate recommendations", 0)))
    [] name = "hello" -> Ended(Returned(ContentText("Hello", 0)))
    [] OTHER -> Ended(Threw("Unknown tool", 0))

\* -------------------------------------------------------------- responses
\* What a caller gets back from one entry point:
\*   thrown   an exception left the entry point and no response was built
\*   escaped  an exception left the dispatcher function (handleMessage,
\*            handleMCPRequest) or the streaming callback, whoever caught it
\*            afterwards
\*   http     the HTTP status (0 where there is none)
\*   id       the envelope's id (AbsentId where the body has no id)
\*   events   the server-sent events of a streaming call, in emission order
Resp(thrown, escaped, http, id, hasResult, result, hasError, code, msg, status, events) ==
  [thrown |-> thrown, escaped |-> escaped, http |-> http, id |-> id,
   hasResult |-> hasResult, result |-> result,
   hasError |-> hasError, code |-> code, msg |-> msg, status |-> status,
   events |-> events]
NoResp == Resp(FALSE, FALSE, 0, AbsentId, FALSE, NoResult, FALSE, 0, "", 0, <<>>)
Thrown(msg) == Resp(TRUE, TRUE, 0, AbsentId, FALSE, NoResult, FALSE, 0, msg, 0, <<>>)
EnvResult(id, result) ==
  Resp(FALSE, FALSE, 200, id, TRUE, result, FALSE, 0, "", 0, <<>>)
EnvError(id, code, msg, status) ==
  Resp(FALSE, FALSE, 200, id, FALSE, NoResult, TRUE, code, msg, status, <<>>)
HttpResult(result) ==
  Resp(FALSE, FALSE, 200, AbsentId, TRUE, result, FALSE, 0, "", 0, <<>>)
HttpError(http, code, msg, status) ==
  Resp(FALSE, FALSE, http, AbsentId, FALSE, NoResult, TRUE, code, msg, status, <<>>)
Streamed(events) ==
  Resp(FALSE, FALSE, 200, AbsentId, FALSE, NoResult, FALSE, 0, "", 0, events)

\* One server-sent event.
Event(name, code, msg, status, result) ==
  [event |-> name, code |-> code, msg |-> msg, status |-> status, result |-> result]
ProgressEvent == Event("progress", 0, "Executing", 0, NoResult)
ResultEvent(result) == Event("result", 0, "", 0, result)
ErrorEvent(code, msg, status) == Event("error", code, msg, status, NoResult)

Static(text) == Result("static", NoDoc, text, 0, <<>>)
\* {content: [{type: 'text', text: <the string, or the JSON of the list>}]}
Wrap(result) == [result EXCEPT !.kind = "content"]

\* A dispatcher runs to its first await: it answers there, or waits.
Answer(resp) == [waits |-> FALSE, fetch |-> NoFetch, resp |-> resp, inv |-> NoInvocation]
Waiting(fetch) == [waits |-> TRUE, fetch |-> fetch, resp |-> NoResp, inv |-> NoInvocation]
\* The dispatcher called a tool handler on its way.
Invoked(step, inv) == [step EXCEPT !.inv = inv]

\* ----------------------------------------- mcp-server.ts (part_000)
\* MCPServer constructor, lines 191-195
Registered == {"read_documentation", "search_documentation", "recommend"}

\* handleMessageWrap answering a failed handler with id null.
handleMessageWrap_nullId(message, out) ==
  IF out.threw THEN EnvError(NullId, -32603, out.msg, out.status)
  ELSE EnvResult(message.id, Wrap(out.result))

\* handleMessage, lines 275-286 and 298-307: the handler's end, wrapped
handleMessageWrap(message, out) ==
  IF out.threw THEN EnvError(message.id, -32603, out.msg, out.status)
  ELSE EnvResult(message.id, Wrap(out.result))

\* handleMessage, lines 252-273 (the same switch stands in part_002, lines
\* 68-97 and 185-218): the tool, up to its first await
ToolBegin(toolName, args, sessionId) ==
  CASE toolName = "read_documentation" -> readDocumentationBegin(ArgUrl(args), sessionId)
    [] toolName = "search_documentation" -> searchDocumentationBegin(sessionId)
    [] toolName = "recommend" -> recommendBegin(ArgUrl(args), sessionId)
    [] OTHER -> Ended(Threw("Unhandled tool", 0))

\* handleMessage, lines 197-297, up to the first await; t is Date.now()
handleMessageBegin(message, t) ==
  IF Falsy(message.id) THEN Answer(Thrown("Message must have an id"))
  ELSE CASE message.method = "initialize" -> Answer(EnvResult(message.id, Static("initialize")))
         [] message.method = "tools/list" -> Answer(EnvResult(message.id, Static("tools")))
         [] message.method = "tools/call" ->
              IF message.name = "" \/ message.name \notin Registered
                THEN Answer(EnvError(message.id, -32601, "Unknown tool", 0))
                ELSE LET step == ToolBegin(message.name, message.args, ClockToken(t))
                     IN  Invoked(IF step.waits THEN Waiting(step.fetch)
                                 ELSE Answer(handleMessageWrap(message, step.out)),
                                 ToolArgs(message.name, message.args))
         [] OTHER -> Answer(EnvError(message.id, -32601, "Unknown method", 0))

\* The tool of the session-aware worker, from the upstream's reply on, with
\* the arguments as every caller passes them (args.max_length || 5000, ...).
ToolEnd(toolName, args, sessionId, reply) ==
  CASE toolName = "read_documentation" ->
         readDocumentation(ArgUrl(args), ToolArgs(toolName, args).max_length,
                           ToolArgs(toolName, args).start_index, sessionId, reply)
    [] toolName = "search_documentation" ->
         searchDocumentation(ToolArgs(toolName, args).limit, reply)
    [] OTHER -> recommend(reply)

\* handleMessage, lines 252-307, from the upstream's reply on
handleMessageEnd(message, sessionId, reply) ==
  handleMessageWrap(message, ToolEnd(message.name, message.args, sessionId, reply))

\* ----------------------------------------- index.ts, the dispatcher
\* handleMCPRequest, lines 355-360 and 372-381
handleMCPRequestWrap(request, out) ==
  IF out.threw THEN EnvError(request.id, -32603, out.msg, out.status)
  ELSE EnvResult(request.id, out.result)

\* handleMCPRequest, lines 323-382, up to the first await
handleMCPRequestBegin(request) ==
  CASE request.method = "initialize" -> Answer(EnvResult(request.id, Static("initialize")))
    [] request.method = "tools/list" -> Answer(EnvResult(request.id, Static("tools")))
    [] request.method = "tools/call" ->
         IF request.name = ""
           THEN Answer(EnvError(request.id, -32603, "Tool name is required", 0))
           ELSE LET step == executeTool(request.name, request.args)
                IN  Invoked(IF step.waits THEN Waiting(step.fetch)
                            ELSE Answer(handleMCPRequestWrap(request, step.out)),
                            ToolArgs(request.name, request.args))
    [] request.method = "ping" -> Answer(EnvResult(request.id, Static("empty")))
    [] OTHER -> Answer(EnvError(request.id, -32603, "Unknown method", 0))

\* handleMCPRequest, line 355, from the upstream's reply on (only
\* read_documentation awaits the upstream)
handleMCPRequestEnd(request, reply) ==
  handleMCPRequestWrap(request,
    indexReadDocumentation(ArgUrl(request.args),
                           ToolArgs(request.name, request.args).max_length,
                           ToolArgs(request.name, request.args).start_index, reply))

\* app.all('/mcp'), lines 391-406: the catch answers a body that does not
\* parse, and also a TypeError of handleMCPRequest destructuring null.
ParseError == Resp(FALSE, FALSE, 400, NullId, FALSE, NoResult, TRUE, -32700, "Parse error", 0, <<>>)
postMcpBegin(request) ==
  CASE request.body = "malformed" -> Answer(ParseError)
    [] request.body = "null" -> Answer([ParseError EXCEPT !.escaped = TRUE])
    [] OTHER -> handleMCPRequestBegin(request)

\* ----------------------------------------- the HTTP worker (part_002)
\* lines 59-60 and 167-168: sessionHeader || generateSessionId(); drawn is
\* the number of UUIDs drawn so far
SessionOf(request, drawn) ==
  IF request.header # NoToken THEN request.header ELSE UuidToken(drawn + 1)

\* Whether the call reaches "Get or create session" (lines 58-64, 166-172).
ReachesSession(request) == request.body = "object" /\ request.name # ""

\* The map forgetting its entries when a new token is registered.
RegisterSession_forgets(map, sessionId) ==
  IF sessionId \in DOMAIN map THEN map ELSE [k \in {sessionId} |-> sessionId]

\* lines 62-64 and 170-172
RegisterSession(map, sessionId) ==
  IF sessionId \in DOMAIN map THEN map
  ELSE [k \in DOMAIN map \cup {sessionId} |-> IF k = sessionId THEN sessionId ELSE map[k]]

\* app.post('/mcp/tools/call'), lines 99-109: the handler's end, as a response
toolsCallWrap(out) ==
  IF out.threw THEN HttpError(500, -32603, out.msg, out.status)
  ELSE HttpResult(out.result)

\* app.post('/mcp/tools/call'), lines 42-111, up to the first await
toolsCallBegin(request, sessionId) ==
  CASE request.body = "malformed" -> Answer(HttpError(500, -32603, "SyntaxError", 0))
    [] request.body = "null" -> Answer(HttpError(500, -32603, "TypeError", 0))
    [] request.name = "" ->
         Answer(HttpError(400, -32602, "Invalid params: tool name is required", 0))
    [] request.name \notin Registered -> Answer(HttpError(404, -32601, "Unknown tool", 0))
    [] OTHER -> LET step == ToolBegin(request.name, request.args, sessionId)
                IN  Invoked(IF step.waits THEN Waiting(step.fetch)
                            ELSE Answer(toolsCallWrap(step.out)),
                            ToolArgs(request.name, request.args))

\* app.post('/mcp/tools/call'), lines 66-109, from the upstream's reply on
toolsCallEnd(request, sessionId, reply) ==
  toolsCallWrap(ToolEnd(request.name, request.args, sessionId, reply))

\* stream.writeSSE inside the try (lines 151, 175, 208, 221) delivering the
\* event and failing all the same.
TryWrite_delivers(events, n, broken, ev) ==
  IF n \in broken
    THEN IF (n + 1) \in broken
           THEN [Streamed(Append(events, ev)) EXCEPT !.escaped = TRUE]
           ELSE Streamed(Append(Append(events, ev), ErrorEvent(-32603, "write failed", 0)))
    ELSE Streamed(Append(events, ev))

\* The catch of the streaming callback, lines 226-236: it writes one error
\* event; when that write fails too, the exception leaves the callback.  n
\* numbers the call's writes, broken holds the numbers of those that fail;
\* a write that fails emits nothing.
CatchWrite(events, n, broken, msg, status) ==
  IF n \in broken THEN [Streamed(events) EXCEPT !.escaped = TRUE]
  ELSE Streamed(Append(events, ErrorEvent(-32603, msg, status)))

\* stream.writeSSE inside the try (lines 151, 175, 208, 221): a failing
\* write lands in the catch.
TryWrite(events, n, broken, ev) ==
  IF n \in broken THEN CatchWrite(events, n + 1, broken, "write failed", 0)
  ELSE Streamed(Append(events, ev))

\* app.post('/mcp/tools/stream'), lines 220-236: the handler's end, as the
\* terminal event (the call's second write)
toolsStreamWrap(events, broken, out) ==
  IF out.threw THEN CatchWrite(events, 2, broken, out.msg, out.status)
  ELSE TryWrite(events, 2, broken, ResultEvent(out.result))

\* app.post('/mcp/tools/stream'), lines 145-239, up to the first await of the
\* upstream.  The body is read outside the try.
toolsStreamBegin(request, sessionId, broken) ==
  CASE request.body = "malformed" -> Answer(Thrown("SyntaxError"))
    [] request.body = "null" -> Answer(CatchWrite(<<>>, 1, broken, "TypeError", 0))
    [] request.name = "" ->
         Answer(TryWrite(<<>>, 1, broken,
                         ErrorEvent(-32602, "Invalid params: tool name is required", 0)))
    [] 1 \in broken -> Answer(CatchWrite(<<>>, 2, broken, "write failed", 0))
    [] request.name \notin Registered ->
         Answer(TryWrite(<<ProgressEvent>>, 2, broken, ErrorEvent(-32601, "Unknown tool", 0)))
    [] OTHER -> LET step == ToolBegin(request.name, request.args, sessionId)
                IN  Invoked(IF step.waits
                              THEN [Waiting(step.fetch) EXCEPT !.resp = Streamed(<<ProgressEvent>>)]
                              ELSE Answer(toolsStreamWrap(<<ProgressEvent>>, broken, step.out)),
                            ToolArgs(request.name, request.args))

\* app.post('/mcp/tools/stream'), lines 183-236, from the upstream's reply on
toolsStreamEnd(request, sessionId, events, broken, reply) ==
  toolsStreamWrap(events, broken, ToolEnd(request.name, request.args, sessionId, reply))

\* ------------------------------------------------------- the environment
Request(entry, body, id, method, name, args, header) ==
  [entry |-> entry, body |-> body, id |-> id, method |-> method, name |-> name,
   args |-> args, header |-> header]
NoRequest == Request("none", "object", AbsentId, "", "", NoArgs, NoToken)

\* What callers put in an arguments object.  The narrow environment (the
\* concurrent specification) sends well-formed calls only.
UrlArgs(narrow) ==
  IF narrow THEN {[url |-> GoodUrl]}
  ELSE {NoArgs} \cup {[url |-> u] : u \in {GoodUrl, EvilUrl, NoHtmlUrl}}
LengthArgs(narrow) ==
  {NoArgs} \cup {[max_length |-> n] : n \in (IF narrow THEN {1} ELSE (-1)..MaxPage)}
StartArgs(narrow) ==
  {NoArgs} \cup {[start_index |-> n] : n \in (IF narrow THEN {1} ELSE (-1)..(MaxPage + 1))}
ReadArgs(narrow) ==
  {u @@ l @@ x : u \in UrlArgs(narrow), l \in LengthArgs(narrow), x \in StartArgs(narrow)}
SearchArgs(narrow) ==
  IF narrow THEN {[search_phrase |-> "s3"]}
  ELSE {p @@ l : p \in {NoArgs, [search_phrase |-> "s3"]},
                 l \in {NoArgs} \cup {[limit |-> n] : n \in {-1, 0, 2, 51}}}

\* params.name and params.arguments of a tools/call ("" is no name).
Payload(name, args) == [name |-> name, args |-> args]
Payloads(narrow) ==
  {Payload("read_documentation", a) : a \in ReadArgs(narrow)}
  \cup {Payload("search_documentation", a) : a \in SearchArgs(narrow)}
  \cup (IF narrow THEN {}
        ELSE {Payload("recommend", a) : a \in UrlArgs(narrow)}
             \cup {Payload(n, NoArgs) : n \in {"", "hello", "nope"}})

Ids(narrow) == IF narrow THEN {NumId(1)} ELSE {AbsentId, NullId, NumId(0), NumId(1)}
OtherMethods(narrow) ==
  IF narrow THEN {} ELSE {"initialize", "tools/list", "ping", "shutdown"}
Headers == {NoToken} \cup {HeaderToken(k) : k \in 1..NumHeaders}

\* JSON-RPC messages, for handleMessage and POST /mcp.
Messages(entry, narrow) ==
  {Request(entry, "object", id, m, "", NoArgs, NoToken) :
     id \in Ids(narrow), m \in OtherMethods(narrow)}
  \cup {Request(entry, "object", id, "tools/call", p.name, p.args, NoToken) :
          id \in Ids(narrow), p \in Payloads(narrow)}

\* Request bodies that are not a JSON object: not JSON at all, or null.
BadBodies(entry, narrow) ==
  IF narrow THEN {}
  ELSE {Request(entry, b, AbsentId, "", "", NoArgs, NoToken) : b \in {"malformed", "null"}}

\* Bodies posted to /mcp/tools/call and /mcp/tools/stream.
ToolPosts(entry, narrow) ==
  BadBodies(entry, narrow)
  \cup {Request(entry, "object", AbsentId, "tools/call", p.name, p.args, h) :
          p \in Payloads(narrow), h \in Headers}

\* What the upstream may answer.
Canon(n) == [i \in 1..n |-> i]
RawPages == {<<>>, <<Markup>>, <<Poison, 1>>}
            \cup {Canon(n) : n \in 1..MaxPage}
            \cup {<<Markup>> \o Canon(n) : n \in 1..MaxPage}
NotFound == Reply("ok", 404, "text/html", <<>>, <<>>)
Replies(target, narrow) ==
  CASE target = "page" ->
         IF narrow
           THEN {NotFound, Reply("ok", 200, "text/html", <<Markup>> \o Canon(MaxPage), <<>>),
                 Reply("ok", 200, "text/plain", Canon(MaxPage), <<>>)}
           ELSE {NetworkFailure, NotFound}
                \cup {Reply("ok", 200, ct, raw, <<>>) :
                        ct \in {"text/html", "text/plain"}, raw \in RawPages}
    [] target = "search" ->
         IF narrow THEN {Reply("ok", 200, "application/json", <<>>, <<TRUE>>)}
         ELSE {NetworkFailure, NotFound}
              \cup {Reply("ok", 200, "application/json", <<>>, sg) :
                      sg \in {<<>>, <<TRUE>>, <<TRUE, FALSE, TRUE>>}}
    [] OTHER -> {NetworkFailure, NotFound, Reply("ok", 200, "application/json", <<>>, <<>>)}

\* ------------------------------------- utils.ts parseRecommendationResults
\* A group of the recommendations response (data.highlyRated, data.new,
\* data.similar): absent, or present with its items.  An item is kept as its
\* url and its assetTitle.
Group(present, items) == [present |-> present, items |-> items]
Absent == Group(FALSE, <<>>)
Item(url, title) == [url |-> url, assetTitle |-> title]
\* An item of data.journey: an intent and, when present, its urls.
Intent(intent, hasUrls, urls) == [intent |-> intent, hasUrls |-> hasUrls, urls |-> urls]
\* A RecommendationResult
Recommendation(url, title, context) == [url |-> url, title |-> title, context |-> context]

\* lines 139-148, 168-190: one result per item, in the items' order
FromItems(group, context) ==
  IF group.present
    THEN [i \in 1..Len(group.items) |->
            Recommendation(group.items[i].url, group.items[i].assetTitle, context)]
    ELSE <<>>

\* lines 152-164: one result per url of each intent group that has urls
RECURSIVE FromJourney(_)
FromJourney(intents) ==
  IF intents = <<>> THEN <<>>
  ELSE LET intentGroup == Head(intents)
       IN  (IF intentGroup.hasUrls
              THEN [i \in 1..Len(intentGroup.urls) |->
                      Recommendation(intentGroup.urls[i].url, intentGroup.urls[i].assetTitle,
                                     IF intentGroup.intent # "" THEN "Intent" ELSE "null")]
              ELSE <<>>)
           \o FromJourney(Tail(intents))

\* parseRecommendationResults emitting the similar group first.
parseRecommendationResults_similarFirst(data) ==
  FromItems(data.similar, "Similar content")
  \o FromItems(data.highlyRated, "abstract")
  \o (IF data.journey.present THEN FromJourney(data.journey.items) ELSE <<>>)
  \o FromItems(data.new, "New content")

\* parseRecommendationResults, lines 135-193
parseRecommendationResults(data) ==
  FromItems(data.highlyRated, "abstract")
  \o (IF data.journey.present THEN FromJourney(data.journey.items) ELSE <<>>)
  \o FromItems(data.new, "New content")
  \o FromItems(data.similar, "Similar content")

\* Recommendation responses: every group absent, empty or holding items.
GroupsOf(title, urls) ==
  {Absent, Group(TRUE, <<>>), Group(TRUE, <<Item(urls[1], title)>>),
   Group(TRUE, <<Item(urls[1], title), Item(urls[2], title)>>),
   Group(TRUE, <<Item(urls[2], title), Item(urls[1], title)>>)}
Journeys ==
  {Absent, Group(TRUE, <<>>),
   Group(TRUE, <<Intent("", TRUE, <<Item(3, "journey")>>)>>),
   Group(TRUE, <<Intent("learn", TRUE, <<Item(4, "journey"), Item(3, "journey")>>),
                 Intent("build", FALSE, <<>>),
                 Intent("run", TRUE, <<Item(5, "journey")>>)>>)}
RecommendationData ==
  [highlyRated : GroupsOf("highlyRated", <<1, 2>>), journey : Journeys,
   new : GroupsOf("new", <<6, 7>>), similar : GroupsOf("similar", <<8, 9>>)]

\* ------------------------------------- the extractors, called on their own
RECURSIVE PagesUpTo(_)
PagesUpTo(n) ==
  IF n = 0 THEN {<<>>}
  ELSE LET shorter == PagesUpTo(n - 1)
       IN  shorter \cup {Append(t, c) : t \in {u \in shorter : Len(u) = n - 1},
                                        c \in {Markup, Poison} \cup (1..NumChars)}
HtmlPages == PagesUpTo(MaxHtml)

\* The extractor of one implementation of the read path.
Extractor(impl, html) ==
  IF impl = "utils" THEN extractContentFromHtml(html) ELSE indexExtractContentFromHtml(html)

NoData == [highlyRated |-> Absent, journey |-> Absent, new |-> Absent, similar |-> Absent]
FnIdle == [op |-> "idle", impl |-> "utils", html |-> <<>>, text |-> <<>>,
           html2 |-> <<>>, text2 |-> <<>>, data |-> NoData, results |-> <<>>]

\* One extractor is handed two pages, one after the other.
Extract(impl, first, second) ==
  /\ fn.op = "idle"
  /\ fn' = [fn EXCEPT !.op = "extract", !.impl = impl,
                      !.html = first, !.text = Extractor(impl, first),
                      !.html2 = second, !.text2 = Extractor(impl, second)]
  /\ UNCHANGED <<streams, pg, calls, sessions, now, uuids, clients>>

\* recommend, line 203: the parser is handed the response's JSON.
Parse(data) ==
  /\ fn.op = "idle"
  /\ fn' = [fn EXCEPT !.op = "parse", !.data = data,
                      !.results = parseRecommendationResults(data)]
  /\ UNCHANGED <<streams, pg, calls, sessions, now, uuids, clients>>

\* ------------------------------------------------------------- the calls
\* inv is the tool handler the call invoked; wfail numbers those of the
\* call's event writes that fail (streaming calls only).
Call(pc, req, sid, fetch, reply, resp, inv, wfail) ==
  [pc |-> pc, req |-> req, sid |-> sid, fetch |-> fetch, reply |-> reply, resp |-> resp,
   inv |-> inv, wfail |-> wfail]
IdleCall == Call("idle", NoRequest, NoToken, NoFetch, NoReply, NoResp, NoInvocation, {})
\* A call after its entry point ran to its first await.
Started(req, sid, step, wfail) ==
  Call(IF step.waits THEN "fetch" ELSE "done", req, sid, step.fetch, NoReply, step.resp,
       step.inv, wfail)

Slots == 1..clients.slots

\* ------------------------------------- GET /mcp/stream (part_002 114-142)
\* One connection:
\*   pc         "idle", "connecting" (the callback awaits the write of the
\*              connection event, line 117), "streaming" (the callback ran to
\*              its end) or "failed" (the write of line 117 threw)
\*   armed      the interval timer of line 126 is set and not cleared
\*   listening  the abort listener of line 138 is registered
\*   gone       the caller disconnected: the stream is aborted
\*   failed     a heartbeat write threw
\*   writing    a timer callback awaits its write (line 128)
\*   beats      heartbeat events emitted
\*   late       a heartbeat event was emitted after a heartbeat write threw
StreamState(pc, armed, listening, gone, failed, writing, beats, late) ==
  [pc |-> pc, armed |-> armed, listening |-> listening, gone |-> gone,
   failed |-> failed, writing |-> writing, beats |-> beats, late |-> late]
IdleStream == StreamState("idle", FALSE, FALSE, FALSE, FALSE, FALSE, 0, FALSE)

\* lines 114-123: the handler draws a session id and starts writing the
\* connection event.
OpenStream(s) ==
  /\ streams[s].pc = "idle"
  /\ streams' = [streams EXCEPT ![s].pc = "connecting"]
  /\ uuids' = uuids + 1
  /\ UNCHANGED <<pg, calls, sessions, now, clients, fn>>

\* lines 117-140: the write of the connection event resolves.  When it
\* throws the callback ends there; otherwise the timer is set (line 126) and
\* the abort listener registered (line 138) with no await in between.
Connected(s, ok) ==
  /\ streams[s].pc = "connecting"
  /\ streams' = [streams EXCEPT ![s] =
                  IF ok THEN [@ EXCEPT !.pc = "streaming", !.armed = TRUE, !.listening = TRUE]
                  ELSE [@ EXCEPT !.pc = "failed"]]
  /\ UNCHANGED <<pg, calls, sessions, now, uuids, clients, fn>>

\* The caller disconnects.  A listener registered by then is called and
\* clears the timer (lines 138-140); the event is not kept for a listener
\* registered later.
Disconnect(s) ==
  /\ streams[s].pc # "idle"
  /\ ~streams[s].gone
  /\ streams' = [streams EXCEPT ![s] =
                  [streams[s] EXCEPT !.gone = TRUE,
                                     !.armed = streams[s].armed /\ ~streams[s].listening]]
  /\ UNCHANGED <<pg, calls, sessions, now, uuids, clients, fn>>

\* lines 126-131: the timer fires and its callback starts a heartbeat write.
BeatStart(s) ==
  /\ streams[s].armed
  /\ ~streams[s].writing
  /\ streams[s].beats < MaxBeats
  /\ streams' = [streams EXCEPT ![s].writing = TRUE]
  /\ UNCHANGED <<pg, calls, sessions, now, uuids, clients, fn>>

\* lines 128-134: the heartbeat write resolves, or throws and the catch
\* clears the timer.  Nothing is emitted on a stream whose caller is gone,
\* whether the write throws there or not.
BeatEnd(s, ok) ==
  /\ streams[s].writing
  /\ streams' = [streams EXCEPT ![s] =
                  IF ok
                    THEN [streams[s] EXCEPT
                            !.writing = FALSE,
                            !.beats = IF streams[s].gone THEN streams[s].beats
                                      ELSE streams[s].beats + 1,
                            !.late = streams[s].late \/ (~streams[s].gone /\ streams[s].failed)]
                    ELSE [streams[s] EXCEPT !.writing = FALSE, !.failed = TRUE,
                                            !.armed = FALSE]]
  /\ UNCHANGED <<pg, calls, sessions, now, uuids, clients, fn>>

ServerInit ==
  /\ streams = [s \in 1..MaxStreams |-> IdleStream]
  /\ calls = [i \in 1..clients.slots |-> IdleCall]
  /\ sessions = [k \in {} |-> NoToken]
  /\ now = 0
  /\ uuids = 0

PgIdle == [impl |-> "utils", text |-> <<>>, max |-> 1, cursor |-> 0, acc |-> <<>>,
           n |-> 0, ended |-> FALSE, called |-> FALSE, start |-> 0, len |-> 0,
           out |-> NoDoc]

\* One caller at a time, sending anything.
Init ==
  /\ clients = [slots |-> 1, narrow |-> FALSE]
  /\ ServerInit
  /\ pg = PgIdle
  /\ fn = FnIdle

\* One caller at a time, sending well-formed calls.
LiveInit ==
  /\ clients = [slots |-> 1, narrow |-> TRUE]
  /\ ServerInit
  /\ pg = PgIdle
  /\ fn = FnIdle

\* No caller: the extractors and the parser are called on their own.
FnInit ==
  /\ clients = [slots |-> 0, narrow |-> TRUE]
  /\ ServerInit
  /\ pg = PgIdle
  /\ fn = FnIdle

\* No tools/call: callers open GET /mcp/stream connections.
StreamInit ==
  /\ clients = [slots |-> 0, narrow |-> TRUE]
  /\ ServerInit
  /\ pg = PgIdle
  /\ fn = FnIdle

\* Several callers at once, sending well-formed calls.
ConcInit ==
  /\ clients = [slots |-> MaxCalls, narrow |-> TRUE]
  /\ ServerInit
  /\ pg = PgIdle
  /\ fn = FnIdle

PageInit ==
  /\ clients = [slots |-> 0, narrow |-> TRUE]
  /\ ServerInit
  /\ PgInit
  /\ fn = FnIdle

\* Which of the (at most three) event writes of a streaming call fail: the
\* progress event, the terminal event, the error event of the catch.
WriteFailures(narrow) == IF narrow THEN {{}} ELSE SUBSET (1..3)

\* What each entry point may be sent, by environment.
HandleMessageInputs(narrow) ==
  IF narrow THEN Messages("handleMessage", TRUE) ELSE Messages("handleMessage", FALSE)
PostMcpInputs(narrow) ==
  IF narrow THEN Messages("mcp", TRUE)
  ELSE BadBodies("mcp", FALSE) \cup Messages("mcp", FALSE)
ToolsCallInputs(narrow) ==
  IF narrow THEN ToolPosts("call", TRUE) ELSE ToolPosts("call", FALSE)
ToolsStreamInputs(narrow) ==
  IF narrow THEN ToolPosts("stream", TRUE) ELSE ToolPosts("stream", FALSE)

\* --------------------------------------------------------------- actions
\* MCPServer.handleMessage(message), to its first await
HandleMessage(i) ==
  /\ calls[i].pc = "idle"
  /\ \E message \in HandleMessageInputs(clients.narrow) :
       calls' = [calls EXCEPT ![i] =
                   Started(message, ClockToken(now), handleMessageBegin(message, now), {})]
  /\ UNCHANGED <<streams, fn, pg, sessions, now, uuids, clients>>

\* POST /mcp of the standalone worker, to its first await
PostMcp(i) ==
  /\ calls[i].pc = "idle"
  /\ \E request \in PostMcpInputs(clients.narrow) :
       calls' = [calls EXCEPT ![i] = Started(request, NoToken, postMcpBegin(request), {})]
  /\ UNCHANGED <<streams, fn, pg, sessions, now, uuids, clients>>

\* What a POST to the HTTP worker does to the session map (lines 58-64,
\* 166-172): nothing before "Get or create session" is reached.
SessionStep(request) ==
  LET sessionId == SessionOf(request, uuids)
  IN  IF ReachesSession(request)
        THEN /\ request.header = NoToken => uuids < MaxUuids
             /\ uuids' = IF request.header = NoToken THEN uuids + 1 ELSE uuids
             /\ sessions' = RegisterSession(sessions, sessionId)
        ELSE UNCHANGED <<sessions, uuids>>

\* POST /mcp/tools/call, to its first await of the upstream
ToolsCall(i) ==
  /\ calls[i].pc = "idle"
  /\ \E request \in ToolsCallInputs(clients.narrow) :
       /\ SessionStep(request)
       /\ LET sessionId == IF ReachesSession(request) THEN SessionOf(request, uuids)
                           ELSE NoToken
          IN  calls' = [calls EXCEPT ![i] =
                          Started(request, sessionId, toolsCallBegin(request, sessionId), {})]
  /\ UNCHANGED <<streams, fn, pg, now, clients>>

\* POST /mcp/tools/stream, to its first await of the upstream
ToolsStream(i) ==
  /\ calls[i].pc = "idle"
  /\ \E request \in ToolsStreamInputs(clients.narrow) :
       /\ SessionStep(request)
       /\ \E broken \in WriteFailures(clients.narrow) :
            LET sessionId == IF ReachesSession(request) THEN SessionOf(request, uuids)
                             ELSE NoToken
            IN  calls' = [calls EXCEPT ![i] =
                            Started(request, sessionId,
                                    toolsStreamBegin(request, sessionId, broken), broken)]
  /\ UNCHANGED <<streams, fn, pg, now, clients>>

\* The call's entry point, from the upstream's reply on.
Finish(call, reply) ==
  CASE call.req.entry = "handleMessage" -> handleMessageEnd(call.req, call.sid, reply)
    [] call.req.entry = "mcp" -> handleMCPRequestEnd(call.req, reply)
    [] call.req.entry = "call" -> toolsCallEnd(call.req, call.sid, reply)
    [] OTHER -> toolsStreamEnd(call.req, call.sid, call.resp.events, call.wfail, reply)

\* The upstream answers the fetch of call i, and the call runs to its end.
UpstreamReply(i) ==
  /\ calls[i].pc = "fetch"
  /\ \E reply \in Replies(calls[i].fetch.target, clients.narrow) :
       calls' = [calls EXCEPT ![i] =
                   Call("done", calls[i].req, calls[i].sid, calls[i].fetch, reply,
                        Finish(calls[i], reply), calls[i].inv, calls[i].wfail)]
  /\ UNCHANGED <<streams, fn, pg, sessions, now, uuids, clients>>

\* The timeout of the fetch of call i expires.  Only the fetch of index.ts
\* (line 213) carries one; the fetches of tools.ts (part_003 lines 95, 142, 192)
\* carry none.
Timeout(i) ==
  /\ calls[i].pc = "fetch"
  /\ calls[i].req.entry = "mcp"
  /\ calls' = [calls EXCEPT ![i] =
                Call("done", calls[i].req, calls[i].sid, calls[i].fetch, TimedOut,
                     Finish(calls[i], TimedOut), calls[i].inv, calls[i].wfail)]
  /\ UNCHANGED <<streams, fn, pg, sessions, now, uuids, clients>>

\* The caller has its answer; the slot serves the next call.
Retire(i) ==
  /\ calls[i].pc = "done"
  /\ calls' = [calls EXCEPT ![i] = IdleCall]
  /\ UNCHANGED <<streams, fn, pg, sessions, now, uuids, clients>>

\* A millisecond passes.
Tick ==
  /\ now < MaxClock
  /\ now' = now + 1
  /\ UNCHANGED <<streams, fn, pg, calls, sessions, uuids, clients>>

Next ==
  \/ \E i \in Slots : HandleMessage(i)
  \/ \E i \in Slots : PostMcp(i)
  \/ \E i \in Slots : ToolsCall(i)
  \/ \E i \in Slots : ToolsStream(i)
  \/ \E i \in Slots : UpstreamReply(i)
  \/ \E i \in Slots : Timeout(i)
  \/ \E i \in Slots : Retire(i)
  \/ Tick

PageNext ==
  \/ PageCall
  \/ \E s \in (-1)..(MaxText + 1) : \E m \in (-1)..MaxLen : Probe(s, m)

FnNext ==
  \/ \E impl \in Impls : \E first, second \in HtmlPages : Extract(impl, first, second)
  \/ \E data \in RecommendationData : Parse(data)

StreamNext ==
  \/ \E s \in 1..MaxStreams : OpenStream(s)
  \/ \E s \in 1..MaxStreams : \E ok \in BOOLEAN : Connected(s, ok)
  \/ \E s \in 1..MaxStreams : Disconnect(s)
  \/ \E s \in 1..MaxStreams : BeatStart(s)
  \/ \E s \in 1..MaxStreams : \E ok \in BOOLEAN : BeatEnd(s, ok)

Spec == Init /\ [][Next]_vars
StreamSpec == StreamInit /\ [][StreamNext]_vars
FnSpec == FnInit /\ [][FnNext]_vars
ConcSpec == ConcInit /\ [][Next]_vars
PageSpec == PageInit /\ [][PageNext]_vars
\* The upstream is free never to answer; a timer that is armed does expire.
LiveSpec == LiveInit /\ [][Next]_vars /\ WF_vars(\E i \in Slots : Timeout(i))

\* ================================================================ claims
\* What the formulas below read off a call.
IsDone(c) == c.pc = "done"
IsJsonRpc(c) == c.req.entry \in {"handleMessage", "mcp"}
\* The call carries a tools/call for the dispatcher of its entry point.
IsToolsCall(c) == c.req.body = "object" /\ c.req.method = "tools/call"
\* handleMessage accepts the message's id (a message it rejects for its id
\* is the subject of C10 alone).
IdAccepted(c) == c.req.entry = "handleMessage" => ~Falsy(c.req.id)
\* The tool names each program registers.
ToolsOf(entry) == IF entry = "mcp" THEN Registered \cup {"hello"} ELSE Registered
\* The response, or an event of it, reports this error code.
Reports(resp, code) ==
  /\ ~resp.thrown
  /\ \/ resp.hasError /\ resp.code = code
     \/ \E k \in 1..Len(resp.events) :
          resp.events[k].event = "error" /\ resp.events[k].code = code
\* The response, or an event of it, carries a result.
Succeeds(resp) ==
  /\ ~resp.thrown
  /\ \/ resp.hasResult
     \/ \E k \in 1..Len(resp.events) : resp.events[k].event = "result"
\* The arguments a read runs with.
ReadUrl(c) == ArgUrl(c.req.args)
ReadLength(c) == OrDefault(c.req.args, "max_length", 5000)
ReadStart(c) == OrDefault(c.req.args, "start_index", 0)
\* The call is a read_documentation whose fetch the upstream answered.
IsAnsweredRead(c) ==
  IsDone(c) /\ IsToolsCall(c) /\ c.req.name = "read_documentation" /\ c.reply # NoReply
\* The text a read handed back: the formatted page of the response, of its
\* content object or of its result event (NoDoc when the read failed).
ReadDoc(c) ==
  IF c.req.entry = "stream"
    THEN c.resp.events[Len(c.resp.events)].result.doc
    ELSE c.resp.result.doc
\* The text the read path extracted from the upstream's reply.
ExtractedText(c) ==
  IF c.req.entry = "mcp" THEN indexExtractContentFromHtml(c.reply.raw)
  ELSE IF isHtmlContent(c.reply.raw, c.reply.ctype) THEN extractContentFromHtml(c.reply.raw)
  ELSE c.reply.raw

\* C1 Pagination coverage: paging from start_index 0 with any max_length >= 1,
\* following each continuation note, what was returned so far is always the
\* text's prefix up to the next start_index (no gap, no overlap), every call
\* returns at least one new character so the chain takes at most
\* max(1, length) calls, and the chain ends, on a response with no note, with
\* the concatenation of the slices equal to the full text.
C1_PaginationCoverage ==
  /\ Len(pg.acc) <= Len(pg.text)
  /\ pg.acc = SubSeq(pg.text, 1, Len(pg.acc))
  /\ pg.n <= Max(1, Len(pg.text))
  /\ ~pg.ended => pg.cursor = Len(pg.acc) /\ pg.n <= pg.cursor
  /\ (~pg.ended /\ pg.n > 0) => pg.out.note /\ pg.cursor < Len(pg.text)
  /\ pg.ended => ~pg.out.note /\ pg.acc = pg.text

\* A chain of three calls or more has ended on the whole of a longest text.
C1_Witness ==
  pg.ended /\ pg.n >= 3 /\ Len(pg.text) = MaxText /\ pg.acc = pg.text

C2_NoMoreContentLabelled ==
  \A i \in Slots :
    (IsAnsweredRead(calls[i]) /\ Ok(calls[i].reply) /\ calls[i].reply.net = "ok"
       /\ calls[i].wfail = {}
       /\ ReadStart(calls[i]) >= Len(ExtractedText(calls[i]))) =>
      /\ ReadDoc(calls[i]).nomore
      /\ ReadDoc(calls[i]).prefix # ""
      /\ ReadDoc(calls[i]).url = ReadUrl(calls[i])

\* C4 Statelessness of reads: two answered read_documentation calls of the
\* same program with the same (url, max_length, start_index), for which the
\* upstream sent the same reply, hand back the same text and the same
\* outcome, whatever their session tokens, whatever was served in between
\* and however they interleaved.
ReadOutcome(c) ==
  IF c.req.entry = "stream"
    THEN LET last == c.resp.events[Len(c.resp.events)]
         IN  [failed |-> last.event = "error", code |-> last.code, msg |-> last.msg,
              status |-> last.status, doc |-> last.result.doc]
    ELSE [failed |-> c.resp.hasError, code |-> c.resp.code, msg |-> c.resp.msg,
          status |-> c.resp.status, doc |-> c.resp.result.doc]
SameRead(c, d) ==
  /\ IsAnsweredRead(c) /\ IsAnsweredRead(d)
  /\ (c.req.entry = "mcp") = (d.req.entry = "mcp")
  /\ ReadUrl(c) = ReadUrl(d) /\ ReadLength(c) = ReadLength(d) /\ ReadStart(c) = ReadStart(d)
  /\ c.reply = d.reply
C4_ReadsAreStateless ==
  \A i, j \in Slots :
    SameRead(calls[i], calls[j]) => ReadOutcome(calls[i]) = ReadOutcome(calls[j])

\* Two equal reads were answered under different session tokens, one derived
\* from the clock and one freshly generated, after a call with a supplied
\* token was served and the clock moved; both returned a slice of the page.
C4_Witness ==
  \E i, j \in Slots :
    /\ SameRead(calls[i], calls[j])
    /\ calls[i].sid.src = "clock" /\ calls[j].sid.src = "uuid"
    /\ HeaderToken(1) \in DOMAIN sessions /\ now > 0
    /\ ReadDoc(calls[i]).body # <<>>
    /\ ReadOutcome(calls[i]) = ReadOutcome(calls[j])

\* C5 Unknown tool: on every entry point, a tools/call naming a tool the
\* program does not register yields error -32601, and neither a tool
\* handler nor an upstream fetch runs for it.  (Stated for messages whose
\* id handleMessage accepts.)
C5_UnknownToolIsNotFound ==
  \A i \in Slots :
    (IsDone(calls[i]) /\ IsToolsCall(calls[i]) /\ IdAccepted(calls[i])
       /\ calls[i].req.name # ""
       /\ calls[i].req.name \notin ToolsOf(calls[i].req.entry)) =>
      /\ Reports(calls[i].resp, -32601)
      /\ ~Succeeds(calls[i].resp)
      /\ calls[i].fetch = NoFetch

\* C6 Validation errors: a tools/call for a known tool whose required
\* argument is missing, or whose read_documentation url is not a trusted
\* origin's .html page, yields error -32602, never -32603, never a result.
\* (Stated for messages whose id handleMessage accepts.)
InvalidArguments(req) ==
  CASE req.name = "read_documentation" ->
         ~(ArgUrl(req.args).def /\ TrustedOrigin(ArgUrl(req.args))
           /\ ArgUrl(req.args).ext = ".html")
    [] req.name = "search_documentation" -> "search_phrase" \notin DOMAIN req.args
    [] req.name = "recommend" -> "url" \notin DOMAIN req.args
    [] OTHER -> FALSE
C6_ValidationErrorIsInvalidParams ==
  \A i \in Slots :
    (IsDone(calls[i]) /\ IsToolsCall(calls[i]) /\ IdAccepted(calls[i])
       /\ calls[i].req.name \in ToolsOf(calls[i].req.entry)
       /\ InvalidArguments(calls[i].req)) =>
      /\ Reports(calls[i].resp, -32602)
      /\ ~Reports(calls[i].resp, -32603)
      /\ ~Succeeds(calls[i].resp)

\* C7 Parse errors: on every endpoint that reads a JSON body, a body that
\* does not parse yields error -32700 with id null and no result; no other
\* code, no exception left uncaught.
C7_ParseErrorIsReported ==
  \A i \in Slots :
    (IsDone(calls[i]) /\ calls[i].req.body = "malformed") =>
      /\ ~calls[i].resp.thrown
      /\ calls[i].resp.hasError /\ calls[i].resp.code = -32700
      /\ ~calls[i].resp.hasResult
      /\ calls[i].resp.id = NullId

\* C8 Method dispatch table: in both dispatchers initialize, tools/list and
\* ping always get a success result (the descriptor, the tool definitions,
\* the empty object), and a method that is none of initialize, tools/list,
\* tools/call, ping always gets error -32601.  (Stated for messages whose
\* id handleMessage accepts.)
StaticResult(method) ==
  CASE method = "initialize" -> Static("initialize")
    [] method = "tools/list" -> Static("tools")
    [] OTHER -> Static("empty")
C8_MethodDispatchTable ==
  \A i \in Slots :
    (IsDone(calls[i]) /\ IsJsonRpc(calls[i]) /\ calls[i].req.body = "object"
       /\ IdAccepted(calls[i])) =>
      /\ calls[i].req.method \in {"initialize", "tools/list", "ping"} =>
           /\ Succeeds(calls[i].resp) /\ ~calls[i].resp.hasError
           /\ calls[i].resp.result = StaticResult(calls[i].req.method)
      /\ calls[i].req.method \notin {"initialize", "tools/list", "ping", "tools/call"} =>
           Reports(calls[i].resp, -32601)

\* C9 Envelope shape: every response a dispatcher returns has exactly one of
\* result and error populated, and its id is the id of the request it
\* answers, for every method and every outcome of the tool handler.
C9_EnvelopeShape ==
  \A i \in Slots :
    (IsDone(calls[i]) /\ IsJsonRpc(calls[i]) /\ calls[i].req.body = "object"
       /\ ~calls[i].resp.thrown) =>
      /\ calls[i].resp.hasResult # calls[i].resp.hasError
      /\ calls[i].resp.hasResult => calls[i].resp.result # NoResult
      /\ calls[i].resp.id = calls[i].req.id

\* handleMessage answered a read whose fetch the upstream refused: an error
\* envelope, no result, the request's id.
C9_Witness ==
  \E i \in Slots :
    /\ IsAnsweredRead(calls[i]) /\ calls[i].req.entry = "handleMessage"
    /\ ~Ok(calls[i].reply)
    /\ calls[i].resp.hasError /\ ~calls[i].resp.hasResult
    /\ calls[i].resp.id = NumId(1)

\* C10 No escaping exception: for every inbound message the dispatcher
\* returns an envelope; no exception leaves handleMessage, handleMCPRequest
\* or the streaming endpoint.
C10_NoEscapingException ==
  \A i \in Slots :
    IsDone(calls[i]) => ~calls[i].resp.thrown /\ ~calls[i].resp.escaped

\* What a call handed back: the result of its response or of its result
\* event (NoResult when it failed).
ResultOf(c) ==
  IF c.req.entry = "stream"
    THEN IF c.resp.events = <<>> THEN NoResult
         ELSE c.resp.events[Len(c.resp.events)].result
    ELSE c.resp.result
\* The upstream refused the call's fetch, or the fetch failed on the network.
UpstreamFailed(c) ==
  c.reply.net = "fail" \/ (c.reply.net = "ok" /\ ~Ok(c.reply))

\* C11 Upstream failures: when the upstream answers a tool's fetch with a
\* non-2xx status or the fetch fails on the network, the tools/call response
\* is an error with code -32603 that carries the upstream's status or the
\* failure's message, and it is never a success result.
C11_UpstreamFailureIsInternalError ==
  \A i \in Slots :
    (IsDone(calls[i]) /\ IsToolsCall(calls[i]) /\ calls[i].inv.ran
       /\ calls[i].wfail = {} /\ UpstreamFailed(calls[i])) =>
      /\ Reports(calls[i].resp, -32603)
      /\ ~Succeeds(calls[i].resp)
      /\ ReadOutcome(calls[i]).msg # ""
      /\ ReadOutcome(calls[i]).status = calls[i].reply.status

\* C12 URL gate before network: a read_documentation whose url does not
\* start with the trusted origin or does not end with .html never has a
\* fetch issued for it, at any point of the call, in every implementation
\* of the read path.
C12_UrlGateBeforeNetwork ==
  \A i \in Slots :
    (calls[i].pc # "idle" /\ IsToolsCall(calls[i])
       /\ calls[i].req.name = "read_documentation"
       /\ InvalidArguments(calls[i].req)) =>
      calls[i].fetch = NoFetch

\* C13 Schema range enforcement: no tool handler is invoked with an argument
\* outside its schema's range: read_documentation never runs with
\* max_length < 1, max_length above the schema's maximum or start_index < 0,
\* and search_documentation never runs with limit outside 1..50.
C13_SchemaRangesEnforced ==
  \A i \in Slots :
    calls[i].inv.ran =>
      /\ calls[i].inv.tool = "read_documentation" =>
           /\ calls[i].inv.max_length >= 1
           /\ calls[i].inv.max_length <=
                (IF calls[i].req.entry = "mcp" THEN 50000 ELSE 1000000)
           /\ calls[i].inv.start_index >= 0
      /\ calls[i].inv.tool = "search_documentation" =>
           calls[i].inv.limit >= 1 /\ calls[i].inv.limit <= 50

\* C14 Defaulting: the handler receives the schema default (max_length 5000,
\* start_index 0, limit 10) for every optional argument absent from the
\* call, and exactly the supplied value for every optional argument present
\* with a value inside its schema range.
Expected(args, k, d, lo, hi, got) ==
  /\ k \notin DOMAIN args => got = d
  /\ (k \in DOMAIN args /\ args[k] >= lo /\ args[k] <= hi) => got = args[k]
C14_Defaulting ==
  \A i \in Slots :
    calls[i].inv.ran =>
      /\ calls[i].inv.tool = "read_documentation" =>
           /\ Expected(calls[i].req.args, "max_length", 5000, 1, 50000,
                       calls[i].inv.max_length)
           /\ Expected(calls[i].req.args, "start_index", 0, 0, 1000000,
                       calls[i].inv.start_index)
      /\ calls[i].inv.tool = "search_documentation" =>
           Expected(calls[i].req.args, "limit", 10, 1, 50, calls[i].inv.limit)

\* A read ran with max_length defaulted and the start_index it was sent.
C14_Witness ==
  \E i \in Slots :
    /\ calls[i].inv.ran /\ calls[i].inv.tool = "read_documentation"
    /\ "max_length" \notin DOMAIN calls[i].req.args
    /\ "start_index" \in DOMAIN calls[i].req.args
    /\ calls[i].req.args.start_index = 2
    /\ calls[i].inv.max_length = 5000 /\ calls[i].inv.start_index = 2

\* C15 Rank ordering: for every upstream response and every limit of the
\* schema's range, the results of search_documentation carry rank_order
\* 1, 2, ..., k in emission order, k = min(limit, number of suggestions).
C15_RankOrdering ==
  \A i \in Slots :
    (IsDone(calls[i]) /\ calls[i].req.entry # "mcp" /\ calls[i].inv.ran
       /\ calls[i].inv.tool = "search_documentation"
       /\ calls[i].inv.limit >= 1 /\ calls[i].inv.limit <= 50
       /\ calls[i].wfail = {}
       /\ calls[i].reply.net = "ok" /\ Ok(calls[i].reply)) =>
      ResultOf(calls[i]).items =
        [k \in 1..Min(calls[i].inv.limit, Len(calls[i].reply.suggestions)) |-> k]

\* C16 Streaming event order: in every streaming call, at every point of it,
\* every progress event comes before the result event and at most one
\* terminal event (result or error) was emitted, also when writes fail or
\* the handler fails.
IsTerminal(ev) == ev.event \in {"result", "error"}
C16_StreamingEventOrder ==
  \A i \in Slots :
    calls[i].req.entry = "stream" =>
      LET ev == calls[i].resp.events
      IN  /\ \A j, k \in 1..Len(ev) :
               (ev[j].event = "progress" /\ ev[k].event = "result") => j < k
          /\ Cardinality({k \in 1..Len(ev) : IsTerminal(ev[k])}) <= 1

\* The upstream answered a streaming call, the write of the result event
\* failed and the catch emitted the error event in its place.
C16_Witness ==
  \E i \in Slots :
    /\ IsDone(calls[i]) /\ calls[i].req.entry = "stream"
    /\ calls[i].reply.net = "ok" /\ Ok(calls[i].reply)
    /\ calls[i].wfail = {2}
    /\ Len(calls[i].resp.events) = 2
    /\ calls[i].resp.events[1].event = "progress"
    /\ calls[i].resp.events[2].event = "error"

\* C17 Bounded waiting: a call that waits for the upstream is eventually
\* answered, even when the upstream never answers.
AwaitsUpstream == \E i \in Slots : calls[i].pc = "fetch"
NoneAwaits == \A i \in Slots : calls[i].pc # "fetch"
C17_EveryCallIsAnswered == AwaitsUpstream ~> NoneAwaits

\* C18 Extractor totality: for every input the extractor returns a string
\* that is not empty, and every failure yields one and the same fixed
\* sentinel string.
IsSentinel(text) == text # <<>> /\ text[1] < 0
C18_ExtractorTotality ==
  fn.op = "extract" =>
    /\ fn.text # <<>> /\ fn.text2 # <<>>
    /\ (IsSentinel(fn.text) /\ IsSentinel(fn.text2)) => fn.text = fn.text2

\* C19 Recommendation assembly: the results are the items of highly rated,
\* journey, new and similar in that order of groups, each group's items in
\* response order with journey fanned out to one result per url; the length
\* of the result is the total number of items, and an absent group
\* contributes nothing.
GroupRank(title) ==
  CASE title = "highlyRated" -> 1 [] title = "journey" -> 2 [] title = "new" -> 3
    [] OTHER -> 4
FromGroup(results, title) ==
  LET IsFrom(r) == r.title = title
      UrlOf(seq) == [i \in 1..Len(seq) |-> seq[i].url]
  IN  UrlOf(SelectSeq(results, IsFrom))
UrlsOf(group) == [i \in 1..Len(group.items) |-> group.items[i].url]
RECURSIVE JourneyUrls(_)
JourneyUrls(intents) ==
  IF intents = <<>> THEN <<>>
  ELSE (IF Head(intents).hasUrls
          THEN [i \in 1..Len(Head(intents).urls) |-> Head(intents).urls[i].url]
          ELSE <<>>) \o JourneyUrls(Tail(intents))
C19_RecommendationAssembly ==
  fn.op = "parse" =>
    /\ \A j, k \in 1..Len(fn.results) :
         j < k => GroupRank(fn.results[j].title) <= GroupRank(fn.results[k].title)
    /\ FromGroup(fn.results, "highlyRated") = UrlsOf(fn.data.highlyRated)
    /\ FromGroup(fn.results, "journey") = JourneyUrls(fn.data.journey.items)
    /\ FromGroup(fn.results, "new") = UrlsOf(fn.data.new)
    /\ FromGroup(fn.results, "similar") = UrlsOf(fn.data.similar)
    /\ Len(fn.results) = Len(fn.data.highlyRated.items) + Len(JourneyUrls(fn.data.journey.items))
                         + Len(fn.data.new.items) + Len(fn.data.similar.items)

\* A response with no "new" group, two highly rated items, a journey of
\* three intents (one without urls) and two similar items was parsed into
\* seven results.
C19_Witness ==
  /\ fn.op = "parse" /\ ~fn.data.new.present
  /\ Len(fn.data.highlyRated.items) = 2 /\ Len(fn.data.journey.items) = 3
  /\ Len(fn.data.similar.items) = 2
  /\ Len(fn.results) = 7
  /\ fn.results[3].title = "journey" /\ fn.results[6].title = "similar"

\* C20 Session registry: under every interleaving of /mcp/tools/call and
\* /mcp/tools/stream requests, every step leaves each entry of the session
\* map in place and unchanged, every entry's value is its key, a step adds
\* at most one entry, only the start of a request adds one, and a request
\* presenting a registered token leaves the map unchanged.
C20_SessionRegistry ==
  [][/\ \A k \in DOMAIN sessions : k \in DOMAIN sessions' /\ sessions'[k] = sessions[k]
     /\ \A k \in DOMAIN sessions' : sessions'[k] = k
     /\ Cardinality(DOMAIN sessions') <= Cardinality(DOMAIN sessions) + 1
     /\ sessions' # sessions =>
          \E i \in Slots : /\ calls[i].pc = "idle" /\ calls'[i].pc # "idle"
                           /\ calls'[i].req.entry \in {"call", "stream"}
                           /\ calls'[i].sid \in DOMAIN sessions'
     /\ \A i \in Slots :
          (calls[i].pc = "idle" /\ calls'[i].pc # "idle"
             /\ calls'[i].req.header \in DOMAIN sessions) => sessions' = sessions
    ]_vars

\* A /mcp/tools/call and a /mcp/tools/stream request are in flight together
\* under one supplied token, registered once, next to a generated token.
C20_Witness ==
  \E i, j \in Slots :
    /\ calls[i].pc = "fetch" /\ calls[j].pc = "fetch"
    /\ calls[i].req.entry = "call" /\ calls[j].req.entry = "stream"
    /\ calls[i].sid = HeaderToken(1) /\ calls[j].sid = HeaderToken(1)
    /\ DOMAIN sessions = {HeaderToken(1), UuidToken(1)}

\* C21 Heartbeat cancellation: on GET /mcp/stream, once the caller has
\* disconnected or a heartbeat write has failed, the heartbeat timer of that
\* stream is cleared and no further heartbeat event is emitted on it: no
\* timer is armed for a stream that has ended.
C21_HeartbeatCancelled ==
  \A s \in 1..MaxStreams :
    (streams[s].gone \/ streams[s].failed) => ~streams[s].armed /\ ~streams[s].late

\* C22 Slice window: for every text and every start_index and max_length
\* that can reach the formatter through tools/call (any integers but
\* max_length 0, which the dispatchers replace by 5000), the content of the
\* output is exactly the characters at the positions
\* [start_index, min(start_index + max_length, length)): none from before
\* start_index, and no more than max_length of them.
Window(text, start, len) ==
  LET lo == Max(start, 0)
      hi == Min(start + len, Len(text))
  IN  IF lo < hi THEN SubSeq(text, lo + 1, hi) ELSE <<>>
C22_SliceWindow ==
  (pg.called /\ pg.len # 0) =>
    /\ pg.out.body = Window(pg.text, pg.start, pg.len)
    /\ Len(pg.out.body) <= Max(pg.len, 0)

====
